---- MODULE Spec2Model ----
(***************************************************************************)
(* Bundl order lifecycle engine: the credit ledger (CreditsService), the   *)
(* durable order table (orderRepository), the live Redis cache             *)
(* (OrdersRedisService: snapshot key, participants set, geo index), the    *)
(* key-expiry subscribers and OrdersService's createOrder, pledgeToOrder,  *)
(* getOrderStatus and handleOrderExpiry.  Every await of a handler is a    *)
(* point where other requests interleave, so a handler is a sequence of    *)
(* steps over a request record that holds its local variables.             *)
(***************************************************************************)
EXTENDS Integers, FiniteSets, Sequences, Bags, TLC

\* ---------------------------------------------------------------- bounds
NumUsers == 2
MaxOrders == 1
MaxInflight == 2
MaxRequests == 2
MaxFaults == 1
MaxHandlers == 2
StartCredits == 2
MaxAuthCalls == 3
MaxPayCalls == 3
MaxMessages == 2

\* ------------------------------------------------------ program constants
CREDIT_COST_PER_ACTION == 1
\* PRODUCT_CREDIT_MAP['bundle_5_credits']
BUNDLE_5_CREDITS == 5

Min(S) == CHOOSE x \in S : \A y \in S : x <= y

Users == 1..NumUsers
OrderIds == 1..MaxOrders
\* an order id that no row and no key ever carries
BogusId == 0
\* amounts of money are counted in half cents, so that an amount with a
\* third decimal can be told from its value in a decimal(10,2) column
Cent == 2
NeededAmounts == {3 * Cent}
\* 0 stands for a createOrder without initialPledge
InitialPledges == {0, 2 * Cent, 3 * Cent}
\* 0.01 and 0.015
PledgeAmounts == {Cent, Cent + 1}

VARIABLES
    credits,            \* user.credits column, per user
    dbOrders,           \* order table: row per order id, NoOrder when absent
    redisOrder,         \* key bundl:order:{id}: [val, ttl]
    redisParticipants,  \* key bundl:order:{id}:participants: [members, ttl]
    geoIndex,           \* sorted sets used as geo index, per key name
    reqs,               \* bag of in-flight order requests
    handlers,           \* bag of running handleOrderExpiryEvent invocations
    ret,                \* the response of the call that returned last
    reqsLeft,           \* calls still to be admitted
    faultsLeft,         \* store/push failures still to be injected
    ledger,             \* per user: debits that ran before any credit-back
    known,              \* order ids handed to clients
    scriptDone,         \* per order: what the completing script step did
    expiry,             \* per order: expiry events and refunds so far
    purchases,          \* credit_purchases table
    hooks,              \* RevenueCat webhook calls inside their transaction
    authRedis,          \* one user's user:{id}:tokens set, token:{t} keys, blacklist
    userRefreshToken,   \* that user's refreshToken column, NoToken for ''
    authCalls,          \* AuthService calls in flight
    tokenAudit,         \* tokens handed out so far and those since superseded
    pay,                \* one Cashfree payment order: its keys, calls, audit
    chat                \* key chat:{id}, per order: the senders of its messages

vars == <<credits, dbOrders, redisOrder, redisParticipants, geoIndex, reqs,
          handlers, ret, reqsLeft, faultsLeft, ledger, known, scriptDone, expiry,
          purchases, hooks, authRedis, userRefreshToken, authCalls, tokenAudit,
          pay, chat>>

\* ------------------------------------------------------------ order rows
EmptyPledgeMap == [u \in Users |-> 0]

NoOrder ==
    [id |-> 0, status |-> "NONE", creatorId |-> 0, amountNeeded |-> 0,
     pledgeMap |-> EmptyPledgeMap, totalPledge |-> 0, totalUsers |-> 0]

\* Object.keys(order.pledgeMap): every stored pledge is > 0
PledgeKeys(order) == {u \in Users : order.pledgeMap[u] > 0}

\* phoneNumberMap: the users found by userRepository.find({id: In(pledgerIds)})
\* that have an entry in pledgeMap, each standing for their phone number
PhoneNumberMap(order) == PledgeKeys(order)

NewOrderRow(id, userId, needed) ==
    [id |-> id, status |-> "ACTIVE", creatorId |-> userId,
     amountNeeded |-> needed, pledgeMap |-> EmptyPledgeMap,
     totalPledge |-> 0, totalUsers |-> 0]

WithInitialPledge(order, userId, initialPledge) ==
    IF initialPledge > 0
    THEN [order EXCEPT !.pledgeMap = [EmptyPledgeMap EXCEPT ![userId] = initialPledge],
                       !.totalPledge = initialPledge,
                       !.totalUsers = 1]
    ELSE order

DbRow(o) == IF o \in OrderIds THEN dbOrders[o] ELSE NoOrder

\* the value a decimal(10,2) column keeps of a number: rounded to the cent
ToDecimal2(x) == ((2 * x + Cent) \div (2 * Cent)) * Cent

\* an order as its row keeps it: amountNeeded and totalPledge are
\* decimal(10,2), pledgeMap is jsonb and keeps every number as given
ToColumns(order) ==
    [order EXCEPT !.amountNeeded = ToDecimal2(@), !.totalPledge = ToDecimal2(@)]

\* ------------------------------------------------------------ Redis keys
KeyPrefix == "bundl:"
ORDER_PREFIX == "order:"
ORDER_PARTICIPANTS_PREFIX == "order:"
\* key names are kept as the sequence of their segments
OrderKey(id) == <<ORDER_PREFIX, ToString(id)>>
ParticipantsKey(id) == <<ORDER_PARTICIPANTS_PREFIX, ToString(id), ":participants">>
ORDERS_GEO_KEY == <<"orders:geo">>
\* ioredis prepends keyPrefix to every key argument of a command and to
\* the KEYS of an eval; literals inside a script and set members stay as is
Prefixed(key) == <<KeyPrefix>> \o key

GeoKeys == {Prefixed(ORDERS_GEO_KEY), ORDERS_GEO_KEY}

NoSnapshot == [val |-> NoOrder, ttl |-> FALSE]
NoParticipants == [members |-> {}, ttl |-> FALSE]

CachedOrder(o) == IF o \in OrderIds THEN redisOrder[o].val ELSE NoOrder

\* access and refresh tokens by number; NoToken is the empty string
NoToken == 0
FirstToken == 1

\* lock:credit_order:{id} is absent; credit_order:{id} is absent
NoLock == 0
NoDetails == [userId |-> 0, credits |-> 0, status |-> "NONE"]

\* --------------------------------------------------------- credit ledger
\* a balance test that lets a debit through whenever the balance is not
\* negative yet
HasEnoughCreditsLoose(balance, amount) == ~(balance < 0)

\* useCredits: the balance test made under the row lock
HasEnoughCredits(balance, amount) == ~(balance < amount)

\* useCredits / addCredits: the value saved under the row lock
DebitedBalance(balance, amount) == balance - amount
CreditedBalance(balance, amount) == balance + amount

\* ledger[u]: successful and refused debits of u counted while nothing has
\* yet been added to (or written over) u's balance; frozen afterwards
FreshLedger == [ok |-> 0, refused |-> 0, pure |-> TRUE]
TouchedLedger == [ok |-> 0, refused |-> 0, pure |-> FALSE]

LedgerAfterDebit(l, success) ==
    IF ~l.pure THEN l
    ELSE IF success THEN [l EXCEPT !.ok = @ + 1]
    ELSE [l EXCEPT !.refused = @ + 1]

\* addCredits(userId, amount) as one transaction on the locked row
AddCredits(userId, amount) ==
    /\ credits' = [credits EXCEPT ![userId] = CreditedBalance(@, amount)]
    /\ ledger' = [ledger EXCEPT ![userId] = TouchedLedger]

\* a useCredits that saves the debit before it tests the balance
UseCreditsCharging(userId, amount, success) ==
    /\ success = HasEnoughCredits(credits[userId], amount)
    /\ credits' = [credits EXCEPT ![userId] = DebitedBalance(@, amount)]
    /\ ledger' = [ledger EXCEPT ![userId] = LedgerAfterDebit(@, success)]

\* useCredits(userId, amount) as one transaction on the locked row;
\* success is the boolean it returns
UseCredits(userId, amount, success) ==
    /\ success = HasEnoughCredits(credits[userId], amount)
    /\ credits' = IF success
                  THEN [credits EXCEPT ![userId] = DebitedBalance(@, amount)]
                  ELSE credits
    /\ ledger' = [ledger EXCEPT ![userId] = LedgerAfterDebit(@, success)]

\* ------------------------------------------------- OrdersRedisService
GeoAdd(index, key, member) == [index EXCEPT ![key] = @ \cup {member}]
ZRem(index, key, member) == [index EXCEPT ![key] = @ \ {member}]

\* the geo entry storeOrder writes for an order, and whether it is there
GeoEntryPresent(o) == OrderKey(o) \in geoIndex[Prefixed(ORDERS_GEO_KEY)]

\* storeOrder(order, expirySeconds): setex, geoadd, sadd, expire
StoreOrder(order) ==
    /\ redisOrder' = [redisOrder EXCEPT ![order.id] = [val |-> order, ttl |-> TRUE]]
    /\ geoIndex' = GeoAdd(geoIndex, Prefixed(ORDERS_GEO_KEY), OrderKey(order.id))
    /\ redisParticipants' =
           [redisParticipants EXCEPT ![order.id] =
               [members |-> @.members \cup {order.creatorId}, ttl |-> TRUE]]

\* deleteOrder(orderId): zrem, del, del
DeleteOrder(o) ==
    /\ geoIndex' = ZRem(geoIndex, Prefixed(ORDERS_GEO_KEY), OrderKey(o))
    /\ redisOrder' = [redisOrder EXCEPT ![o] = NoSnapshot]
    /\ redisParticipants' = [redisParticipants EXCEPT ![o] = NoParticipants]

\* a script that counts every pledge as a new user
PledgedOrderCounting(order, userId, pledgeAmount) ==
    LET total == order.totalPledge + pledgeAmount
    IN  [order EXCEPT
            !.pledgeMap = [@ EXCEPT ![userId] = @ + pledgeAmount],
            !.totalPledge = total,
            !.totalUsers = @ + 1,
            !.status = IF total >= order.amountNeeded THEN "COMPLETED" ELSE @]

\* the Lua script of pledgeToOrder, its pure part: the order it computes
PledgedOrder(order, userId, pledgeAmount) ==
    LET isNewUser == order.pledgeMap[userId] = 0
        currentPledge == order.pledgeMap[userId]
        total == order.totalPledge + pledgeAmount
    IN  [order EXCEPT
            !.pledgeMap = [@ EXCEPT ![userId] = currentPledge + pledgeAmount],
            !.totalPledge = total,
            !.totalUsers = IF isNewUser THEN @ + 1 ELSE @,
            !.status = IF total >= order.amountNeeded THEN "COMPLETED" ELSE @]

\* a script without the test of totalPledge against amountNeeded
ScriptResultUnguarded(order, userId, pledgeAmount) ==
    IF order = NoOrder
    THEN [success |-> FALSE, message |-> "Order not found", updatedOrder |-> NoOrder]
    ELSE IF order.status # "ACTIVE"
    THEN [success |-> FALSE, message |-> "Order is not active", updatedOrder |-> NoOrder]
    ELSE [success |-> TRUE, message |-> "Pledge successful",
          updatedOrder |-> PledgedOrder(order, userId, pledgeAmount)]

\* the triple the script returns, as pledgeToOrder hands it on
ScriptResult(order, userId, pledgeAmount) ==
    IF order = NoOrder
    THEN [success |-> FALSE, message |-> "Order not found", updatedOrder |-> NoOrder]
    ELSE IF order.status # "ACTIVE"
    THEN [success |-> FALSE, message |-> "Order is not active", updatedOrder |-> NoOrder]
    ELSE IF order.totalPledge >= order.amountNeeded
    THEN [success |-> FALSE, message |-> "Order is already fully pledged",
          updatedOrder |-> NoOrder]
    ELSE [success |-> TRUE, message |-> "Pledge successful",
          updatedOrder |-> PledgedOrder(order, userId, pledgeAmount)]

\* the script's writes: SADD for a new user, SET of the snapshot (a plain SET
\* drops the key's TTL) and, on completion, ZREM 'orders:geo' KEYS[1], DEL, DEL
ScriptEffects(o, userId, result) ==
    IF ~result.success
    THEN UNCHANGED <<redisOrder, redisParticipants, geoIndex>>
    ELSE LET isNewUser == redisOrder[o].val.pledgeMap[userId] = 0
             completed == result.updatedOrder.status = "COMPLETED"
         IN  /\ redisOrder' = [redisOrder EXCEPT ![o] =
                    IF completed THEN NoSnapshot
                    ELSE [val |-> result.updatedOrder, ttl |-> FALSE]]
             /\ redisParticipants' = [redisParticipants EXCEPT ![o] =
                    IF completed THEN NoParticipants
                    ELSE IF isNewUser THEN [@ EXCEPT !.members = @ \cup {userId}]
                    ELSE @]
             /\ geoIndex' = IF completed
                            THEN ZRem(geoIndex, ORDERS_GEO_KEY, Prefixed(OrderKey(o)))
                            ELSE geoIndex

\* ------------------------------------------------------ request records
\* a request in flight: its arguments, where it stands, its locals, the
\* balance changes it has made to its caller so far (net, refunds) and
\* whether the script turned its pledge down (rejected)
Request(kind, pc, userId, orderId, amount, needed, order, message, net, refunds) ==
    [kind |-> kind, pc |-> pc, userId |-> userId, orderId |-> orderId,
     amount |-> amount, needed |-> needed, order |-> order,
     message |-> message, net |-> net, refunds |-> refunds, rejected |-> FALSE]

\* what a finished call handed back: outcome "ok" or the exception class
\* (list: the orders of a find-near response; seen: the orders that this or
\* an earlier pledgeToOrder or getOrderStatus response showed as COMPLETED or
\* EXPIRED)
Return(r, outcome, message, shown) ==
    [kind |-> r.kind, userId |-> r.userId, orderId |-> r.orderId,
     amount |-> r.amount, outcome |-> outcome, message |-> message,
     net |-> r.net, refunds |-> r.refunds, rejected |-> r.rejected,
     shown |-> shown, list |-> {}, phones |-> {}, token |-> 0,
     seen |-> IF /\ r.kind \in {"pledge", "status"}
                 /\ shown.status \in {"COMPLETED", "EXPIRED"}
              THEN ret.seen \cup {shown.id}
              ELSE ret.seen]

NoReturn ==
    [kind |-> "none", userId |-> 0, orderId |-> 0, amount |-> 0,
     outcome |-> "none", message |-> "", net |-> 0, refunds |-> 0,
     rejected |-> FALSE, shown |-> NoOrder, list |-> {}, phones |-> {}, token |-> 0,
     seen |-> {}]

BagAdd(B, e) == B (+) SetToBag({e})
BagRemove(B, e) == B (-) SetToBag({e})
BagReplace(B, old, new) == BagAdd(BagRemove(B, old), new)

FaultChoices == IF faultsLeft > 0 THEN {FALSE, TRUE} ELSE {FALSE}
Inject(fault) == faultsLeft' = IF fault THEN faultsLeft - 1 ELSE faultsLeft

Admit ==
    /\ reqsLeft > 0
    /\ BagCardinality(reqs) + Cardinality(hooks) < MaxInflight
    /\ reqsLeft' = reqsLeft - 1

\* order ids a client can name: those a createOrder has published, and
\* one id that exists nowhere
Targets == known \cup {BogusId}

\* createOrder calls that have not inserted their row yet, with multiplicity
UnsavedCreates ==
    LET S == {r \in BagToSet(reqs) : r.kind = "create" /\ r.orderId = 0}
    IN  IF S = {} THEN 0 ELSE BagCardinality([r \in S |-> reqs[r]])

cacheVars == <<redisOrder, redisParticipants, geoIndex>>
auditVars == <<known, scriptDone, expiry>>
hookVars == <<purchases, hooks>>
authVars == <<authRedis, userRefreshToken, authCalls, tokenAudit>>
sideVars == <<authVars, pay, chat>>

\* the caller's refund inside a request: addCredits, counted on the request
Refunded(r) ==
    [r EXCEPT !.net = @ + (credits'[r.userId] - credits[r.userId]),
              !.refunds = @ + 1]

\* -------------------------------------------- OrdersService.createOrder
\* useCredits; on false BadRequestException('Not enough credits')
CreateOrderBegin(userId, needed, initialPledge) ==
    /\ Admit
    /\ Cardinality({o \in OrderIds : dbOrders[o] # NoOrder}) + UnsavedCreates < MaxOrders
    /\ \E success \in BOOLEAN :
        /\ UseCredits(userId, CREDIT_COST_PER_ACTION, success)
        /\ LET r == Request("create", "save", userId, 0, initialPledge, needed, NoOrder,
                            "", credits'[userId] - credits[userId], 0)
           IN  IF success
               THEN reqs' = BagAdd(reqs, r) /\ ret' = ret
               ELSE reqs' = reqs
                    /\ ret' = Return(r, "BadRequestException", "Not enough credits", NoOrder)
    /\ UNCHANGED <<dbOrders, cacheVars, handlers, faultsLeft, auditVars>>
    /\ UNCHANGED <<hookVars, sideVars>>

\* the id the insert generates: one no row carries yet
FreshOrderId == CHOOSE o \in OrderIds :
    /\ dbOrders[o] = NoOrder
    /\ \A p \in OrderIds : dbOrders[p] = NoOrder => o <= p

\* the catch block of pledgeToOrder: which errors it refunds before rethrowing
RefundInPledgeCatch(errorClass) == errorClass # "BadRequestException"

\* orderRepository.save(order), then save again with the initial pledge
CreateOrderSave(r) ==
    /\ r \in BagToSet(reqs) /\ r.kind = "create" /\ r.pc = "save"
    /\ \E fault \in FaultChoices :
        /\ Inject(fault)
        /\ IF fault
           THEN /\ reqs' = BagReplace(reqs, r, [r EXCEPT !.pc = "catch"])
                /\ dbOrders' = dbOrders
           ELSE LET id == FreshOrderId
                    row == WithInitialPledge(NewOrderRow(id, r.userId, r.needed),
                                             r.userId, r.amount)
                IN  /\ dbOrders' = [dbOrders EXCEPT ![id] = ToColumns(row)]
                    /\ reqs' = BagReplace(reqs, r,
                                  [r EXCEPT !.pc = "store", !.orderId = id, !.order = row])
    /\ UNCHANGED <<credits, cacheVars, handlers, ret, reqsLeft, ledger, auditVars>>
    /\ UNCHANGED <<hookVars, sideVars>>

\* storeOrder(savedOrder, expirySeconds), notifyNearbyUsers (its failure is
\* caught), return savedOrder
CreateOrderStore(r) ==
    /\ r \in BagToSet(reqs) /\ r.kind = "create" /\ r.pc = "store"
    /\ \E fault \in FaultChoices :
        /\ Inject(fault)
        /\ IF fault
           THEN \* storeOrder rejects at setex, or at geoadd after the setex
                /\ reqs' = BagReplace(reqs, r, [r EXCEPT !.pc = "catch"])
                /\ \E failedAt \in {"setex", "geoadd"} :
                     redisOrder' =
                         IF failedAt = "geoadd"
                         THEN [redisOrder EXCEPT ![r.order.id] =
                                  [val |-> r.order, ttl |-> TRUE]]
                         ELSE redisOrder
                /\ UNCHANGED <<redisParticipants, geoIndex, ret, known>>
           ELSE /\ StoreOrder(r.order)
                /\ known' = known \cup {r.orderId}
                /\ reqs' = BagRemove(reqs, r)
                /\ ret' = Return(r, "ok", "", r.order)
    /\ UNCHANGED <<credits, dbOrders, handlers, reqsLeft, ledger, scriptDone, expiry>>
    /\ UNCHANGED <<hookVars, sideVars>>

\* catch: addCredits(userId, CREDIT_COST_PER_ACTION); throw error
CreateOrderCatch(r) ==
    /\ r \in BagToSet(reqs) /\ r.kind = "create" /\ r.pc = "catch"
    /\ AddCredits(r.userId, CREDIT_COST_PER_ACTION)
    /\ reqs' = BagRemove(reqs, r)
    /\ ret' = Return(Refunded(r), "Error", "store failure", NoOrder)
    /\ UNCHANGED <<dbOrders, cacheVars, handlers, reqsLeft, faultsLeft, auditVars>>
    /\ UNCHANGED <<hookVars, sideVars>>

\* ------------------------------------------- OrdersService.pledgeToOrder
\* scriptDone[o]: how often the script moved o to COMPLETED, and for the
\* latest time the total it found, the pledge it added, the total it left
\* and the pledges to o that were waiting for their own script step; last is
\* the snapshot the latest successful script step on o wrote
NotCompleted ==
    [completions |-> 0, base |-> 0, pledge |-> 0, totalPledge |-> 0, rivals |-> {},
     last |-> NoOrder]

Rivals(r) ==
    {[userId |-> q.userId, amount |-> q.amount] :
        q \in {x \in BagToSet(reqs) : /\ x.kind = "pledge" /\ x.pc = "script"
                                       /\ x.orderId = r.orderId
                                       /\ (x # r \/ reqs[r] > 1)}}

\* leave the try block with an exception of the given class
PledgeThrow(r, errorClass, message) ==
    IF RefundInPledgeCatch(errorClass)
    THEN /\ reqs' = BagReplace(reqs, r, [r EXCEPT !.pc = "catch", !.message = message])
         /\ ret' = ret
    ELSE /\ reqs' = BagRemove(reqs, r)
         /\ ret' = Return(r, errorClass, message, NoOrder)

\* useCredits; on false BadRequestException('Not enough credits')
PledgeBegin(userId, o, pledgeAmount) ==
    /\ Admit
    /\ o \in Targets
    /\ \E success \in BOOLEAN :
        /\ UseCredits(userId, CREDIT_COST_PER_ACTION, success)
        /\ LET r == Request("pledge", "script", userId, o, pledgeAmount, 0, NoOrder,
                            "", credits'[userId] - credits[userId], 0)
           IN  IF success
               THEN reqs' = BagAdd(reqs, r) /\ ret' = ret
               ELSE reqs' = reqs
                    /\ ret' = Return(r, "BadRequestException", "Not enough credits", NoOrder)
    /\ UNCHANGED <<dbOrders, cacheVars, handlers, faultsLeft, auditVars>>
    /\ UNCHANGED <<hookVars, sideVars>>

\* ordersRedisService.pledgeToOrder: the eval of the script; an eval error
\* is caught there and comes back as {success: false}
PledgeScript(r) ==
    /\ r \in BagToSet(reqs) /\ r.kind = "pledge" /\ r.pc = "script"
    /\ \E fault \in FaultChoices :
        /\ Inject(fault)
        /\ LET o == r.orderId
               before == CachedOrder(o)
               result == IF fault
                         THEN [success |-> FALSE, message |-> "Error: eval",
                               updatedOrder |-> NoOrder]
                         ELSE ScriptResult(before, r.userId, r.amount)
           IN  /\ IF o \in OrderIds
                  THEN ScriptEffects(o, r.userId, result)
                  ELSE UNCHANGED cacheVars
               /\ scriptDone' =
                     IF ~result.success
                     THEN scriptDone
                     ELSE IF result.updatedOrder.status = "COMPLETED"
                     THEN [scriptDone EXCEPT ![o] =
                             [completions |-> @.completions + 1,
                              base |-> before.totalPledge,
                              pledge |-> r.amount,
                              totalPledge |-> result.updatedOrder.totalPledge,
                              rivals |-> Rivals(r),
                              last |-> result.updatedOrder]]
                     ELSE [scriptDone EXCEPT ![o].last = result.updatedOrder]
               /\ reqs' = BagReplace(reqs, r,
                     IF result.success
                     THEN [r EXCEPT !.pc = "update", !.order = result.updatedOrder]
                     ELSE [r EXCEPT !.pc = "refund", !.message = result.message,
                                    !.rejected = TRUE])
    /\ UNCHANGED <<credits, dbOrders, handlers, ret, reqsLeft, ledger, known, expiry>>
    /\ UNCHANGED <<hookVars, sideVars>>

\* !result.success: addCredits(userId, CREDIT_COST_PER_ACTION)
PledgeRefund(r) ==
    /\ r \in BagToSet(reqs) /\ r.kind = "pledge" /\ r.pc = "refund"
    /\ AddCredits(r.userId, CREDIT_COST_PER_ACTION)
    /\ reqs' = BagReplace(reqs, r, [Refunded(r) EXCEPT !.pc = "notifyFailure"])
    /\ UNCHANGED <<dbOrders, cacheVars, handlers, ret, reqsLeft, faultsLeft, auditVars>>
    /\ UNCHANGED <<hookVars, sideVars>>

\* eventsService.handlePledgeFailure (its user lookup can fail), then
\* throw new BadRequestException(result.message)
PledgeNotifyFailure(r) ==
    /\ r \in BagToSet(reqs) /\ r.kind = "pledge" /\ r.pc = "notifyFailure"
    /\ \E fault \in FaultChoices :
        /\ Inject(fault)
        /\ IF fault
           THEN PledgeThrow(r, "Error", "user lookup failed")
           ELSE PledgeThrow(r, "BadRequestException", r.message)
    /\ UNCHANGED <<credits, dbOrders, cacheVars, handlers, reqsLeft, ledger, auditVars>>
    /\ UNCHANGED <<hookVars, sideVars>>

\* orderRepository.update({id}, {pledgeMap, totalPledge, totalUsers, status})
PledgeUpdate(r) ==
    /\ r \in BagToSet(reqs) /\ r.kind = "pledge" /\ r.pc = "update"
    /\ \E fault \in FaultChoices :
        /\ Inject(fault)
        /\ IF fault
           THEN PledgeThrow(r, "Error", "order update failed") /\ dbOrders' = dbOrders
           ELSE /\ dbOrders' = [dbOrders EXCEPT ![r.orderId] =
                       IF @ = NoOrder THEN @
                       ELSE [@ EXCEPT !.pledgeMap = r.order.pledgeMap,
                                      !.totalPledge = ToDecimal2(r.order.totalPledge),
                                      !.totalUsers = r.order.totalUsers,
                                      !.status = r.order.status]]
                /\ reqs' = BagReplace(reqs, r, [r EXCEPT !.pc = "notify"])
                /\ ret' = ret
    /\ UNCHANGED <<credits, cacheVars, handlers, reqsLeft, ledger, auditVars>>
    /\ UNCHANGED <<hookVars, sideVars>>

\* a successful pledge that also hands the credit back before it returns
PledgeNotifyRefunding(r) ==
    /\ r \in BagToSet(reqs) /\ r.kind = "pledge" /\ r.pc = "notify"
    /\ AddCredits(r.userId, CREDIT_COST_PER_ACTION)
    /\ reqs' = BagRemove(reqs, r)
    /\ ret' = Return(Refunded(r), "ok", "", r.order)
    /\ UNCHANGED <<dbOrders, cacheVars, handlers, reqsLeft, faultsLeft, auditVars>>
    /\ UNCHANGED <<hookVars, sideVars>>

\* handleSuccessfulPledge and, when COMPLETED, handleOrderCompleted (their
\* user lookups can fail); notifyNearbyUsers is caught; return updatedOrder,
\* with phoneNumberMap when it is COMPLETED
PledgeNotify(r) ==
    /\ r \in BagToSet(reqs) /\ r.kind = "pledge" /\ r.pc = "notify"
    /\ \E fault \in FaultChoices :
        /\ Inject(fault)
        /\ IF fault
           THEN PledgeThrow(r, "Error", "user lookup failed")
           ELSE /\ reqs' = BagRemove(reqs, r)
                /\ ret' = IF r.order.status = "COMPLETED"
                          THEN [Return(r, "ok", "", r.order) EXCEPT
                                   !.phones = PhoneNumberMap(r.order)]
                          ELSE Return(r, "ok", "", r.order)
    /\ UNCHANGED <<credits, dbOrders, cacheVars, handlers, reqsLeft, ledger, auditVars>>
    /\ UNCHANGED <<hookVars, sideVars>>

\* catch, error not a BadRequestException: addCredits, then throw error
PledgeCatch(r) ==
    /\ r \in BagToSet(reqs) /\ r.kind = "pledge" /\ r.pc = "catch"
    /\ AddCredits(r.userId, CREDIT_COST_PER_ACTION)
    /\ reqs' = BagRemove(reqs, r)
    /\ ret' = Return(Refunded(r), "Error", r.message, NoOrder)
    /\ UNCHANGED <<dbOrders, cacheVars, handlers, reqsLeft, faultsLeft, auditVars>>
    /\ UNCHANGED <<hookVars, sideVars>>

\* ------------------------------------------ OrdersService.getOrderStatus
\* an ACTIVE branch that hands the order out as it is
RedactedNothing(order, userId) == order

\* the ACTIVE branch: only the caller's entry of pledgeMap is handed out
Redacted(order, userId) ==
    [order EXCEPT !.pledgeMap = [EmptyPledgeMap EXCEPT ![userId] = order.pledgeMap[userId]]]

\* a status answer that carries the phone numbers whatever the order's
\* status and whoever asks
StatusReturnLeaking(r, order) ==
    [Return(r, "ok", "", order) EXCEPT !.phones = PhoneNumberMap(order)]

\* from the participant check on: what the call returns for the order found
StatusReturn(r, order) ==
    IF order.pledgeMap[r.userId] = 0
    THEN Return(r, "NotFoundException", "Order not found or you are not a participant",
                NoOrder)
    ELSE IF order.status = "COMPLETED"
    THEN [Return(r, "ok", "", order) EXCEPT !.phones = PhoneNumberMap(order)]
    ELSE IF order.status = "ACTIVE"
    THEN Return(r, "ok", "", Redacted(order, r.userId))
    ELSE Return(r, "ok", "", order)

\* ordersRedisService.getOrder(orderId); a hit goes on to the checks
StatusBegin(userId, o) ==
    /\ Admit
    /\ o \in Targets
    /\ LET r == Request("status", "find", userId, o, 0, 0, NoOrder, "", 0, 0)
       IN  IF CachedOrder(o) # NoOrder
           THEN reqs' = reqs /\ ret' = StatusReturn(r, CachedOrder(o))
           ELSE reqs' = BagAdd(reqs, r) /\ ret' = ret
    /\ UNCHANGED <<credits, dbOrders, cacheVars, handlers, faultsLeft, ledger, auditVars>>
    /\ UNCHANGED <<hookVars, sideVars>>

\* orderRepository.findOne; a COMPLETED row goes on to the checks
StatusFind(r) ==
    /\ r \in BagToSet(reqs) /\ r.kind = "status" /\ r.pc = "find"
    /\ LET order == DbRow(r.orderId)
       IN  IF order = NoOrder
           THEN /\ reqs' = BagRemove(reqs, r)
                /\ ret' = Return(r, "NotFoundException", "Order not found", NoOrder)
           ELSE IF order.status # "COMPLETED"
           THEN /\ reqs' = BagReplace(reqs, r, [r EXCEPT !.pc = "restore", !.order = order])
                /\ ret' = ret
           ELSE /\ reqs' = BagRemove(reqs, r)
                /\ ret' = StatusReturn(r, order)
    /\ UNCHANGED <<credits, dbOrders, cacheVars, handlers, reqsLeft, faultsLeft, ledger,
                   auditVars>>
    /\ UNCHANGED <<hookVars, sideVars>>

\* storeOrder(order) with the default expiry, then the checks
StatusRestore(r) ==
    /\ r \in BagToSet(reqs) /\ r.kind = "status" /\ r.pc = "restore"
    /\ StoreOrder(r.order)
    /\ reqs' = BagRemove(reqs, r)
    /\ ret' = StatusReturn(r, r.order)
    /\ UNCHANGED <<credits, dbOrders, handlers, reqsLeft, faultsLeft, ledger, auditVars>>
    /\ UNCHANGED <<hookVars, sideVars>>

\* ------------------------------------- OrdersService.getActiveOrdersNear
\* a findOrdersNear call that waits for its gets, with the members that
\* georadius returned
NearRequest(geoResults) ==
    Request("near", "get", 0, 0, 0, 0, NoOrder, "", 0, 0) @@ [geoResults |-> geoResults]

NearReturn(r, orders) == [Return(r, "ok", "", NoOrder) EXCEPT !.list = orders]

\* redis.georadius(ORDERS_GEO_KEY, ...) around a point that has every order
\* in its radius; an empty result returns []
NearBegin ==
    /\ Admit
    /\ LET geoResults == geoIndex[Prefixed(ORDERS_GEO_KEY)]
           r == NearRequest(geoResults)
       IN  IF geoResults = {}
           THEN reqs' = reqs /\ ret' = NearReturn(r, {})
           ELSE reqs' = BagAdd(reqs, r) /\ ret' = ret
    /\ UNCHANGED <<credits, dbOrders, cacheVars, handlers, faultsLeft, ledger, auditVars>>
    /\ UNCHANGED <<hookVars, sideVars>>

\* redis.get(key) for every member, JSON.parse, orders.filter(Boolean)
NearGet(r) ==
    /\ r \in BagToSet(reqs) /\ r.kind = "near" /\ r.pc = "get"
    /\ reqs' = BagRemove(reqs, r)
    /\ ret' = NearReturn(r, {CachedOrder(o) : o \in {p \in OrderIds :
                                 OrderKey(p) \in r.geoResults}} \ {NoOrder})
    /\ UNCHANGED <<credits, dbOrders, cacheVars, handlers, reqsLeft, faultsLeft, ledger,
                   auditVars>>
    /\ UNCHANGED <<hookVars, sideVars>>

\* ------------------------------------------------- key-expiry subscribers
\* the services whose onModuleInit subscribes to __keyevent@0__:expired
Subscribers == {"OrdersRedisService", "RedisService"}

\* the subscriber's filter and the order id it takes from the message
IsOrderMessage(message) ==
    Len(message) >= 2 /\ SubSeq(message, 1, 2) = <<KeyPrefix, ORDER_PREFIX>>
MessageOrderId(message) == message[3]
OrderOfId(idString) == CHOOSE o \in OrderIds : ToString(o) = idString

\* a handleOrderExpiryEvent invocation, suspended at its first await (paid:
\* the users it has refunded; failed: the users whose addCredits threw)
NewHandler(o) ==
    [orderId |-> o, pc |-> "find", order |-> NoOrder, found |-> "NONE", todo |-> {},
     paid |-> {}, failed |-> {}]

\* what the latest ended invocation for an order did: the creator and the
\* keys of pledgeMap it had to refund, whom it refunded, whose refund failed
NoFanOut == [participants |-> {}, paid |-> {}, failed |-> {}]

NoExpiry ==
    [events |-> 0, snapshotExpiries |-> 0, finished |-> 0,
     refunds |-> [u \in Users |-> 0], last |-> NoFanOut]

\* the expired-key message reaches every subscriber; each emits
\* 'order.expired' for a message it accepts, which starts one handler
Publish(message, audit) ==
    IF IsOrderMessage(message)
    THEN LET o == OrderOfId(MessageOrderId(message))
             fresh == [h \in {NewHandler(o)} |-> Cardinality(Subscribers)]
         IN  /\ handlers' = handlers (+) fresh
             /\ expiry' = [audit EXCEPT ![o].events = @ + Cardinality(Subscribers)]
    ELSE handlers' = handlers /\ expiry' = audit

\* room for the handlers one more expired key starts
HandlersFit == BagCardinality(handlers) + Cardinality(Subscribers) <= MaxHandlers

\* Redis expires the key bundl:order:{id}
ExpireOrderKey(o) ==
    /\ redisOrder[o].val # NoOrder /\ redisOrder[o].ttl
    /\ HandlersFit
    /\ redisOrder' = [redisOrder EXCEPT ![o] = NoSnapshot]
    /\ Publish(Prefixed(OrderKey(o)), [expiry EXCEPT ![o].snapshotExpiries = @ + 1])
    /\ UNCHANGED <<credits, dbOrders, redisParticipants, geoIndex, reqs, ret, reqsLeft,
                   faultsLeft, ledger, known, scriptDone>>
    /\ UNCHANGED <<hookVars, sideVars>>

\* Redis expires the key bundl:order:{id}:participants
ExpireParticipantsKey(o) ==
    /\ redisParticipants[o].members # {} /\ redisParticipants[o].ttl
    /\ HandlersFit
    /\ redisParticipants' = [redisParticipants EXCEPT ![o] = NoParticipants]
    /\ Publish(Prefixed(ParticipantsKey(o)), expiry)
    /\ UNCHANGED <<credits, dbOrders, redisOrder, geoIndex, reqs, ret, reqsLeft,
                   faultsLeft, ledger, known, scriptDone>>
    /\ UNCHANGED <<hookVars, sideVars>>

\* --------------------------------------- OrdersService.handleOrderExpiry
HandlerRefunded(audit, o, userId) == [audit EXCEPT ![o].refunds[userId] = @ + 1]

\* orderRepository.findOne; return when there is no row
HandlerFind(h) ==
    /\ h \in BagToSet(handlers) /\ h.pc = "find"
    /\ LET order == dbOrders[h.orderId]
       IN  handlers' = IF order = NoOrder
                       THEN BagRemove(handlers, h)
                       ELSE BagReplace(handlers, h,
                               [h EXCEPT !.pc = "save", !.order = order,
                                         !.found = order.status])
    /\ UNCHANGED <<credits, dbOrders, cacheVars, reqs, ret, reqsLeft, faultsLeft, ledger,
                   auditVars>>
    /\ UNCHANGED <<hookVars, sideVars>>

\* order.status = EXPIRED; orderRepository.save(order)
HandlerSave(h) ==
    /\ h \in BagToSet(handlers) /\ h.pc = "save"
    /\ LET order == [h.order EXCEPT !.status = "EXPIRED"]
       IN  /\ dbOrders' = [dbOrders EXCEPT ![h.orderId] = ToColumns(order)]
           /\ handlers' = BagReplace(handlers, h, [h EXCEPT !.pc = "delete", !.order = order])
    /\ UNCHANGED <<credits, cacheVars, reqs, ret, reqsLeft, faultsLeft, ledger, auditVars>>
    /\ UNCHANGED <<hookVars, sideVars>>

\* ordersRedisService.deleteOrder(orderId)
HandlerDelete(h) ==
    /\ h \in BagToSet(handlers) /\ h.pc = "delete"
    /\ DeleteOrder(h.orderId)
    /\ handlers' = BagReplace(handlers, h, [h EXCEPT !.pc = "creator"])
    /\ UNCHANGED <<credits, dbOrders, reqs, ret, reqsLeft, faultsLeft, ledger, auditVars>>
    /\ UNCHANGED <<hookVars, sideVars>>

\* an invocation returns or rejects: what it did is kept for the order
HandlerEnded(audit, h) ==
    [audit EXCEPT ![h.orderId].last =
        [participants |-> PledgeKeys(h.order) \cup {h.order.creatorId},
         paid |-> h.paid, failed |-> h.failed]]

\* the handler after a refund: on to the remaining pledgers, or, when none
\* is left, handleOrderExpired and return
HandlerAdvance(h, after, todo, audit) ==
    IF todo = {}
    THEN /\ handlers' = BagRemove(handlers, h)
         /\ expiry' = [HandlerEnded(audit, after) EXCEPT ![h.orderId].finished = @ + 1]
    ELSE /\ handlers' = BagReplace(handlers, h,
                            [after EXCEPT !.pc = "pledgers", !.todo = todo])
         /\ expiry' = audit

\* addCredits(order.creatorId, CREDIT_COST_PER_ACTION), outside any try
\* block: when it throws, handleOrderExpiry rejects there
HandlerRefundCreator(h) ==
    /\ h \in BagToSet(handlers) /\ h.pc = "creator"
    /\ \E fault \in FaultChoices :
        /\ Inject(fault)
        /\ IF fault
           THEN /\ UNCHANGED <<credits, ledger>>
                /\ handlers' = BagRemove(handlers, h)
                /\ expiry' = HandlerEnded(expiry,
                                 [h EXCEPT !.failed = @ \cup {h.order.creatorId}])
           ELSE /\ AddCredits(h.order.creatorId, CREDIT_COST_PER_ACTION)
                /\ HandlerAdvance(h, [h EXCEPT !.paid = @ \cup {h.order.creatorId}],
                                  PledgeKeys(h.order) \ {h.order.creatorId},
                                  HandlerRefunded(expiry, h.orderId, h.order.creatorId))
    /\ UNCHANGED <<dbOrders, cacheVars, reqs, ret, reqsLeft, known, scriptDone>>
    /\ UNCHANGED <<hookVars, sideVars>>

\* the loop over the other pledgers: addCredits(pledgerId, ...) inside
\* try/catch, an error is logged and the loop goes on
HandlerRefundPledger(h) ==
    /\ h \in BagToSet(handlers) /\ h.pc = "pledgers"
    /\ LET pledgerId == Min(h.todo)
       IN  \E fault \in FaultChoices :
             /\ Inject(fault)
             /\ IF fault
                THEN /\ UNCHANGED <<credits, ledger>>
                     /\ HandlerAdvance(h, [h EXCEPT !.failed = @ \cup {pledgerId}],
                                       h.todo \ {pledgerId}, expiry)
                ELSE /\ AddCredits(pledgerId, CREDIT_COST_PER_ACTION)
                     /\ HandlerAdvance(h, [h EXCEPT !.paid = @ \cup {pledgerId}],
                                       h.todo \ {pledgerId},
                                       HandlerRefunded(expiry, h.orderId, pledgerId))
    /\ UNCHANGED <<dbOrders, cacheVars, reqs, ret, reqsLeft, known, scriptDone>>
    /\ UNCHANGED <<hookVars, sideVars>>

\* --------------------------------------------- RevenueCatService webhooks
\* webhook deliveries: event ids and store transaction ids they carry
EventIds == 1..MaxRequests
TransactionIds == {1}

Purchase(eventId, userId, transactionId, creditsAwarded) ==
    [revenueCatEventId |-> eventId, userId |-> userId,
     purchaseToken |-> transactionId, creditsAwarded |-> creditsAwarded]

\* the unique indexes idx_event_id and idx_purchase_token of CreditPurchase
UniqueViolation(row) ==
    \E p \in purchases : \/ p.revenueCatEventId = row.revenueCatEventId
                         \/ p.purchaseToken = row.purchaseToken

\* manager.save(CreditPurchase, row) as the last statement of a transaction
\* that has written balance to the user row.  The entity declares the unique
\* indexes and no migration of the repository creates the table, so the
\* insert is taken both with the indexes in place (a duplicate throws and
\* the transaction rolls back) and without them.
CommitWithPurchase(userId, balance, row) ==
    \E indexed \in BOOLEAN :
        IF indexed /\ UniqueViolation(row)
        THEN UNCHANGED <<credits, ledger, purchases>>
        ELSE /\ credits' = [credits EXCEPT ![userId] = balance]
             /\ ledger' = [ledger EXCEPT ![userId] = TouchedLedger]
             /\ purchases' = purchases \cup {row}

otherVars ==
    <<dbOrders, cacheVars, reqs, handlers, ret, faultsLeft, auditVars, sideVars>>

\* awardCreditsForPurchase up to the user lookup: the two duplicate checks
\* and manager.findOne(User), which takes no lock
AwardBegin(userId, eventId, transactionId) ==
    /\ Admit
    /\ hooks' = IF \/ \E p \in purchases : p.revenueCatEventId = eventId
                   \/ \E p \in purchases : p.purchaseToken = transactionId
                THEN hooks
                ELSE hooks \cup {[kind |-> "award", userId |-> userId,
                                  row |-> Purchase(eventId, userId, transactionId,
                                                   BUNDLE_5_CREDITS),
                                  credits |-> credits[userId], n |-> reqsLeft]}
    /\ UNCHANGED <<credits, ledger, purchases, otherVars>>

\* user.credits += credits; manager.save(User, user); save of the purchase
AwardCommit(h) ==
    /\ h \in hooks /\ h.kind = "award"
    /\ CommitWithPurchase(h.userId,
                          CreditedBalance(h.credits, h.row.creditsAwarded), h.row)
    /\ hooks' = hooks \ {h}
    /\ UNCHANGED <<reqsLeft, otherVars>>

\* handleRefund: the balance it saves for a user read with user.credits
RefundedBalance(balance, creditsAwarded) ==
    IF balance >= creditsAwarded THEN balance - creditsAwarded ELSE balance

\* handleRefund up to the user lookup: the duplicate check, the original
\* purchase (recorded with zero credits when there is none), findOne(User)
RefundBegin(userId, eventId, transactionId) ==
    /\ Admit
    /\ IF \E p \in purchases : p.revenueCatEventId = eventId
       THEN UNCHANGED <<hooks, purchases>>
       ELSE IF \A p \in purchases : p.purchaseToken # transactionId
       THEN /\ purchases' = purchases \cup {Purchase(eventId, userId, transactionId, 0)}
            /\ hooks' = hooks
       ELSE \E purchase \in {p \in purchases : p.purchaseToken = transactionId} :
            /\ hooks' = hooks \cup
                 {[kind |-> "refund", userId |-> userId,
                   row |-> Purchase(eventId, userId, transactionId,
                                    0 - purchase.creditsAwarded),
                   credits |-> credits[userId], n |-> reqsLeft]}
            /\ purchases' = purchases
    /\ UNCHANGED <<credits, ledger, otherVars>>

\* the deduction when the balance read covers it, then the refund record
RefundCommit(h) ==
    /\ h \in hooks /\ h.kind = "refund"
    /\ CommitWithPurchase(h.userId,
                          RefundedBalance(h.credits, 0 - h.row.creditsAwarded), h.row)
    /\ hooks' = hooks \ {h}
    /\ UNCHANGED <<reqsLeft, otherVars>>

\* ------------------------------------------------------- specification
\* the system right after start, no order made yet
InitFresh ==
    /\ credits = [u \in Users |-> StartCredits]
    /\ dbOrders = [o \in OrderIds |-> NoOrder]
    /\ redisOrder = [o \in OrderIds |-> NoSnapshot]
    /\ redisParticipants = [o \in OrderIds |-> NoParticipants]
    /\ geoIndex = [k \in GeoKeys |-> {}]
    /\ known = {}
    /\ ledger = [u \in Users |-> FreshLedger]

\* the system after user 1's createOrder(amountNeeded, initialPledge) has
\* returned: the row, the three cache entries, one credit spent
LiveOrder(initialPledge) ==
    WithInitialPledge(NewOrderRow(1, 1, Min(NeededAmounts)), 1, initialPledge)

InitLive(initialPledge) ==
    /\ credits = [u \in Users |-> IF u = 1
                                 THEN DebitedBalance(StartCredits, CREDIT_COST_PER_ACTION)
                                 ELSE StartCredits]
    /\ dbOrders = [o \in OrderIds |->
           IF o = 1 THEN ToColumns(LiveOrder(initialPledge)) ELSE NoOrder]
    /\ redisOrder = [o \in OrderIds |->
           IF o = 1 THEN [val |-> LiveOrder(initialPledge), ttl |-> TRUE] ELSE NoSnapshot]
    /\ redisParticipants = [o \in OrderIds |->
           IF o = 1 THEN [members |-> {1}, ttl |-> TRUE] ELSE NoParticipants]
    /\ geoIndex = [k \in GeoKeys |->
           IF k = Prefixed(ORDERS_GEO_KEY) THEN {OrderKey(1)} ELSE {}]
    /\ known = {1}
    /\ ledger = [u \in Users |-> IF u = 1 THEN LedgerAfterDebit(FreshLedger, TRUE)
                                ELSE FreshLedger]

\* the system after an INITIAL_PURCHASE webhook for user 1 has been processed
PriorEventId == 0
InitPurchased ==
    /\ credits = [u \in Users |-> IF u = 1
                                 THEN CreditedBalance(StartCredits, BUNDLE_5_CREDITS)
                                 ELSE StartCredits]
    /\ dbOrders = [o \in OrderIds |-> NoOrder]
    /\ redisOrder = [o \in OrderIds |-> NoSnapshot]
    /\ redisParticipants = [o \in OrderIds |-> NoParticipants]
    /\ geoIndex = [k \in GeoKeys |-> {}]
    /\ known = {}
    /\ ledger = [u \in Users |-> IF u = 1 THEN TouchedLedger ELSE FreshLedger]
    /\ purchases = {Purchase(PriorEventId, 1, Min(TransactionIds), BUNDLE_5_CREDITS)}

InitCalls ==
    /\ reqs = EmptyBag
    /\ handlers = EmptyBag
    /\ hooks = {}
    /\ ret = NoReturn
    /\ reqsLeft = MaxRequests
    /\ faultsLeft = MaxFaults
    /\ scriptDone = [o \in OrderIds |-> NotCompleted]
    /\ expiry = [o \in OrderIds |-> NoExpiry]
    /\ authRedis = [tokens |-> {FirstToken}, keys |-> {FirstToken}, blacklist |-> {}]
    /\ userRefreshToken = FirstToken
    /\ authCalls = {}
    /\ tokenAudit = [access |-> {FirstToken}, refresh |-> {FirstToken},
                     revoked |-> {}, superseded |-> {},
                     signed |-> FirstToken, callsLeft |-> MaxAuthCalls]
    /\ pay = [lock |-> NoLock,
              details |-> [userId |-> 1, credits |-> 5, status |-> "PENDING"],
              calls |-> {}, added |-> 0, callsLeft |-> MaxPayCalls]
    /\ chat = [o \in OrderIds |-> <<>>]

Init ==
    /\ \/ InitFresh
       \/ \E i \in {0, Cent, 2 * Cent} : InitLive(i)
    /\ purchases = {}
    /\ InitCalls

Next ==
    \/ \E u \in Users, n \in NeededAmounts, i \in InitialPledges : CreateOrderBegin(u, n, i)
    \/ \E r \in BagToSet(reqs) : CreateOrderSave(r)
    \/ \E r \in BagToSet(reqs) : CreateOrderStore(r)
    \/ \E r \in BagToSet(reqs) : CreateOrderCatch(r)
    \/ \E u \in Users, o \in Targets, a \in PledgeAmounts : PledgeBegin(u, o, a)
    \/ \E r \in BagToSet(reqs) : PledgeScript(r)
    \/ \E r \in BagToSet(reqs) : PledgeRefund(r)
    \/ \E r \in BagToSet(reqs) : PledgeNotifyFailure(r)
    \/ \E r \in BagToSet(reqs) : PledgeUpdate(r)
    \/ \E r \in BagToSet(reqs) : PledgeNotify(r)
    \/ \E r \in BagToSet(reqs) : PledgeCatch(r)
    \/ \E u \in Users, o \in Targets : StatusBegin(u, o)
    \/ \E r \in BagToSet(reqs) : StatusFind(r)
    \/ \E r \in BagToSet(reqs) : StatusRestore(r)
    \/ \E o \in OrderIds : ExpireOrderKey(o)
    \/ \E o \in OrderIds : ExpireParticipantsKey(o)
    \/ \E h \in BagToSet(handlers) : HandlerFind(h)
    \/ \E h \in BagToSet(handlers) : HandlerSave(h)
    \/ \E h \in BagToSet(handlers) : HandlerDelete(h)
    \/ \E h \in BagToSet(handlers) : HandlerRefundCreator(h)
    \/ \E h \in BagToSet(handlers) : HandlerRefundPledger(h)

Spec == Init /\ [][Next]_vars

\* the engine together with the purchase and refund webhooks
NextLedger ==
    \/ Next
    \/ \E u \in Users, e \in EventIds, t \in TransactionIds : AwardBegin(u, e, t)
    \/ \E h \in hooks : AwardCommit(h)
    \/ \E u \in Users, e \in EventIds, t \in TransactionIds : RefundBegin(u, e, t)
    \/ \E h \in hooks : RefundCommit(h)

InitLedger ==
    /\ \/ InitFresh /\ purchases = {}
       \/ InitLive(2 * Cent) /\ purchases = {}
       \/ InitPurchased
    /\ InitCalls

SpecLedger == InitLedger /\ [][NextLedger]_vars

\* the engine together with the find-near query
NextNear ==
    \/ Next
    \/ NearBegin
    \/ \E r \in BagToSet(reqs) : NearGet(r)

SpecNear == Init /\ [][NextNear]_vars

\* ------------------------------------------------------------ AuthService
\* the methods class AuthService defines
AuthServiceMethods ==
    {"sendOtp", "verifyOtpAndLoginOrCreateUser", "storeTokenForUser", "updateFcmToken",
     "generateTokens", "refreshTokens", "isTokenBlacklisted", "blacklistAllUserTokens",
     "signOut"}

\* phone numbers as sequences of characters: a prefix, then nines, of which
\* one may be another digit, with or without separators
MaxNines == 11
Nines(n) == [i \in 1..n |-> "9"]
PhonePrefixes ==
    {<<>>, <<"+">>, <<"9", "1">>, <<"+", "9", "1">>, <<"0", "9", "1">>,
     <<"9", "1", " ">>, <<"+", "9", "1", "-">>, <<"+", "9", "1", "0", "9", "1">>,
     <<"a", "b", "c">>}
PhoneBodies ==
    {Nines(n) : n \in 0..MaxNines}
        \cup {[Nines(10) EXCEPT ![i] = "8"] : i \in 1..10}
        \cup {Nines(4) \o <<"-">> \o Nines(3) \o <<"-">> \o Nines(3),
              Nines(4) \o <<" ">> \o Nines(3) \o <<" ">> \o Nines(3)}
PhoneNumbers == {prefix \o body : prefix \in PhonePrefixes, body \in PhoneBodies}

\* service[name](phoneNumber) as the unit test calls it: a name the class
\* does not define is undefined, and calling undefined throws a TypeError
CallByName(name, phoneNumber) ==
    IF name \in AuthServiceMethods THEN "called" ELSE "TypeError"

\* service['isDummyTestAccount'](phoneNumber)
DummyCheck(phoneNumber) ==
    /\ ret' = [NoReturn EXCEPT !.kind = "isDummyTestAccount",
                               !.message = phoneNumber,
                               !.outcome = CallByName("isDummyTestAccount", phoneNumber)]
    /\ UNCHANGED <<credits, dbOrders, cacheVars, reqs, handlers, reqsLeft, faultsLeft,
                   ledger, auditVars, hookVars, sideVars>>

NextAuth == \E phoneNumber \in PhoneNumbers : DummyCheck(phoneNumber)

SpecAuth == Init /\ [][NextAuth]_vars

\* ------------------------------------------------- AuthService tokens
\* The token state of one user who has logged in once.  Tokens are numbered
\* in the order jwtService.sign made them; an access token and the refresh
\* token signed with it share the number.  No token reaches its exp here.
AuthCall(kind, pc, refreshToken, entity) ==
    [kind |-> kind, pc |-> pc, refreshToken |-> refreshToken, entity |-> entity,
     userTokens |-> {}, accessToken |-> NoToken,
     old |-> refreshToken \in tokenAudit.superseded, n |-> tokenAudit.callsLeft]

AuthAdmit == tokenAudit.callsLeft > 0 /\ Cardinality(authCalls) < MaxInflight
Admitted(audit) == [audit EXCEPT !.callsLeft = @ - 1]

AuthReturn(kind, outcome, message, token) ==
    [NoReturn EXCEPT !.kind = kind, !.outcome = outcome, !.message = message,
                     !.token = token]

\* every token handed out so far is superseded from here on
Superseding(audit) ==
    [audit EXCEPT !.revoked = @ \cup audit.access, !.superseded = @ \cup audit.refresh]

engineVars ==
    <<credits, dbOrders, cacheVars, reqs, handlers, reqsLeft, ledger, auditVars, hookVars,
      pay, chat>>

\* an isTokenBlacklisted that lets a token through when the lookup failed
IsTokenBlacklistedOpen(token, failed) ==
    IF failed THEN FALSE ELSE token \in authRedis.blacklist

\* isTokenBlacklisted: redis.exists('blacklist:token:' + token) === 1, and
\* true when the lookup throws
IsTokenBlacklisted(token, failed) ==
    IF failed THEN TRUE ELSE token \in authRedis.blacklist

\* JwtStrategy.validate for a bearer token whose signature and exp are good
ValidateToken(token) ==
    /\ token \in tokenAudit.access
    /\ \E fault \in FaultChoices :
        /\ Inject(fault)
        /\ ret' = IF IsTokenBlacklisted(token, fault)
                  THEN AuthReturn("validate", "UnauthorizedException",
                                  IF fault THEN "lookup failed" ELSE "", token)
                  ELSE AuthReturn("validate", "admitted", "", token)
    /\ UNCHANGED <<engineVars, authVars>>

\* verifyOtpAndLoginOrCreateUser up to its findOne(User), for a good OTP
LoginBegin ==
    /\ AuthAdmit
    /\ authCalls' = authCalls \cup {AuthCall("login", "smembers", NoToken, userRefreshToken)}
    /\ tokenAudit' = Admitted(tokenAudit)
    /\ UNCHANGED <<engineVars, ret, faultsLeft, authRedis, userRefreshToken>>

\* signOut(userId) up to its first Redis command
SignOutBegin ==
    /\ AuthAdmit
    /\ authCalls' = authCalls \cup {AuthCall("signOut", "smembers", NoToken, NoToken)}
    /\ tokenAudit' = Admitted(tokenAudit)
    /\ UNCHANGED <<engineVars, ret, faultsLeft, authRedis, userRefreshToken>>

\* redis.smembers('user:{id}:tokens') in blacklistAllUserTokens and in
\* signOut; blacklistAllUserTokens swallows an error, signOut rethrows it
AuthSmembers(c) ==
    /\ c \in authCalls /\ c.pc = "smembers"
    /\ \E fault \in FaultChoices :
        /\ Inject(fault)
        /\ IF ~fault
           THEN /\ authCalls' = (authCalls \ {c}) \cup
                       {[c EXCEPT !.pc = "blacklist", !.userTokens = authRedis.tokens]}
                /\ ret' = ret
           ELSE IF c.kind = "login"
           THEN /\ authCalls' = (authCalls \ {c}) \cup {[c EXCEPT !.pc = "sadd"]}
                /\ ret' = ret
           ELSE /\ authCalls' = authCalls \ {c}
                /\ ret' = AuthReturn("signOut", "Error", "smembers failed", NoToken)
    /\ UNCHANGED <<engineVars, authRedis, userRefreshToken, tokenAudit>>

\* for each token read: ttl('token:' + t); when > 0, setex of the blacklist
\* key and del of the token key; then del of the set when tokens were read
AuthBlacklist(c) ==
    /\ c \in authCalls /\ c.pc = "blacklist"
    /\ LET live == c.userTokens \cap authRedis.keys
       IN  authRedis' =
               [tokens |-> IF c.userTokens # {} THEN {} ELSE authRedis.tokens,
                keys |-> authRedis.keys \ live,
                blacklist |-> authRedis.blacklist \cup live]
    /\ authCalls' = (authCalls \ {c}) \cup
           {[c EXCEPT !.pc = IF c.kind = "login" THEN "sadd" ELSE "update"]}
    /\ UNCHANGED <<engineVars, ret, faultsLeft, userRefreshToken, tokenAudit>>

\* userRepository.update({id}, {refreshToken: ''}); return {success: true}
SignOutUpdate(c) ==
    /\ c \in authCalls /\ c.kind = "signOut" /\ c.pc = "update"
    /\ userRefreshToken' = NoToken
    /\ authCalls' = authCalls \ {c}
    /\ tokenAudit' = Superseding(tokenAudit)
    /\ ret' = AuthReturn("signOut", "ok", "", NoToken)
    /\ UNCHANGED <<engineVars, faultsLeft, authRedis>>

\* jwtService.sign and storeTokenForUser's redis.sadd('user:{id}:tokens', token)
AuthSadd(c) ==
    /\ c \in authCalls /\ c.pc = "sadd"
    /\ LET token == tokenAudit.signed + 1
       IN  /\ authRedis' = [authRedis EXCEPT !.tokens = @ \cup {token}]
           /\ authCalls' = (authCalls \ {c}) \cup
                  {[c EXCEPT !.pc = "setex", !.accessToken = token]}
           /\ tokenAudit' = [tokenAudit EXCEPT !.signed = token]
    /\ UNCHANGED <<engineVars, ret, faultsLeft, userRefreshToken>>

\* storeTokenForUser's redis.setex('token:' + token, ttl, userId); refreshTokens
\* then returns the access token
AuthSetex(c) ==
    /\ c \in authCalls /\ c.pc = "setex"
    /\ authRedis' = [authRedis EXCEPT !.keys = @ \cup {c.accessToken}]
    /\ IF c.kind = "login"
       THEN /\ authCalls' = (authCalls \ {c}) \cup {[c EXCEPT !.pc = "save"]}
            /\ UNCHANGED <<ret, tokenAudit>>
       ELSE /\ authCalls' = authCalls \ {c}
            /\ tokenAudit' = [tokenAudit EXCEPT !.access = @ \cup {c.accessToken}]
            /\ ret' = AuthReturn("refresh", "ok", "", c.accessToken)
    /\ UNCHANGED <<engineVars, faultsLeft, userRefreshToken>>

\* user.refreshToken = tokens.refreshToken; userRepository.save(user); return
LoginSave(c) ==
    /\ c \in authCalls /\ c.kind = "login" /\ c.pc = "save"
    /\ userRefreshToken' = c.accessToken
    /\ authCalls' = authCalls \ {c}
    /\ tokenAudit' = [Superseding(tokenAudit) EXCEPT
                         !.access = @ \cup {c.accessToken},
                         !.refresh = @ \cup {c.accessToken}]
    /\ ret' = AuthReturn("login", "ok", "", c.accessToken)
    /\ UNCHANGED <<engineVars, faultsLeft, authRedis>>

\* refreshTokens(refreshToken) with a refresh token handed out earlier:
\* jwtService.verify, then isTokenBlacklisted(refreshToken)
RefreshBegin(refreshToken) ==
    /\ AuthAdmit
    /\ refreshToken \in tokenAudit.refresh
    /\ tokenAudit' = Admitted(tokenAudit)
    /\ \E fault \in FaultChoices :
        /\ Inject(fault)
        /\ IF fault
           THEN /\ authCalls' = authCalls
                /\ ret' = AuthReturn("refresh", "ForbiddenException",
                                     "Invalid refresh token, please sign in again",
                                     NoToken)
           ELSE /\ authCalls' = authCalls \cup
                       {AuthCall("refresh", "find", refreshToken, NoToken)}
                /\ ret' = ret
    /\ UNCHANGED <<engineVars, authRedis, userRefreshToken>>

\* userRepository.findOne and user.refreshToken !== refreshToken
RefreshFind(c) ==
    /\ c \in authCalls /\ c.kind = "refresh" /\ c.pc = "find"
    /\ IF userRefreshToken = c.refreshToken
       THEN /\ authCalls' = (authCalls \ {c}) \cup {[c EXCEPT !.pc = "sadd"]}
            /\ ret' = ret
       ELSE /\ authCalls' = authCalls \ {c}
            /\ ret' = AuthReturn("refresh", "ForbiddenException",
                                 "Invalid refresh token, please sign in again", NoToken)
    /\ UNCHANGED <<engineVars, faultsLeft, authRedis, userRefreshToken, tokenAudit>>

\* updateFcmToken(userId, fcmToken) up to its findOne(User)
UpdateFcmBegin ==
    /\ AuthAdmit
    /\ authCalls' = authCalls \cup {AuthCall("updateFcmToken", "save", NoToken,
                                              userRefreshToken)}
    /\ tokenAudit' = Admitted(tokenAudit)
    /\ UNCHANGED <<engineVars, ret, faultsLeft, authRedis, userRefreshToken>>

\* user.fcmToken = fcmToken; userRepository.save(user): save writes every
\* column in which the entity it is given differs from the row
UpdateFcmSave(c) ==
    /\ c \in authCalls /\ c.kind = "updateFcmToken" /\ c.pc = "save"
    /\ userRefreshToken' = c.entity
    /\ authCalls' = authCalls \ {c}
    /\ ret' = AuthReturn("updateFcmToken", "ok", "", NoToken)
    /\ UNCHANGED <<engineVars, faultsLeft, authRedis, tokenAudit>>

NextTokens ==
    \/ \E token \in 1..(MaxAuthCalls + 1) : ValidateToken(token)
    \/ LoginBegin
    \/ SignOutBegin
    \/ \E refreshToken \in 1..(MaxAuthCalls + 1) : RefreshBegin(refreshToken)
    \/ UpdateFcmBegin
    \/ \E c \in authCalls : AuthSmembers(c)
    \/ \E c \in authCalls : AuthBlacklist(c)
    \/ \E c \in authCalls : SignOutUpdate(c)
    \/ \E c \in authCalls : AuthSadd(c)
    \/ \E c \in authCalls : AuthSetex(c)
    \/ \E c \in authCalls : LoginSave(c)
    \/ \E c \in authCalls : RefreshFind(c)
    \/ \E c \in authCalls : UpdateFcmSave(c)

SpecTokens == Init /\ [][NextTokens]_vars

\* ------------------------------ CashfreeService.processPaymentAtomically
\* Success webhooks for one payment order id.  A call's lockValue is its
\* number n; pay.added counts the transactions that added the credits.
PayFinished(c, result) == [c EXCEPT !.pc = "finally", !.result = result]

payFrame ==
    <<dbOrders, cacheVars, reqs, handlers, reqsLeft, ledger, auditVars, hookVars,
      authVars, chat>>

\* redis.set(lockKey, lockValue, 'EX', 10, 'NX'); a call that gets no lock
\* goes to its finally block
PayBegin ==
    /\ pay.callsLeft > 0 /\ Cardinality(pay.calls) < MaxInflight
    /\ LET n == pay.callsLeft
           acquired == pay.lock = NoLock
           c == [n |-> n, pc |-> IF acquired THEN "details" ELSE "finally",
                 details |-> NoDetails, result |-> FALSE]
       IN  pay' = [pay EXCEPT !.callsLeft = n - 1,
                              !.lock = IF acquired THEN n ELSE @,
                              !.calls = @ \cup {c}]
    /\ UNCHANGED <<credits, ret, faultsLeft, payFrame>>

\* the lock key reaches its 10 second expiry
PayLockExpires ==
    /\ pay.lock # NoLock
    /\ pay' = [pay EXCEPT !.lock = NoLock]
    /\ UNCHANGED <<credits, ret, faultsLeft, payFrame>>

\* getOrderDetails(orderId): null when the key is gone or the get throws;
\* null and status COMPLETED end the call with false
PayDetails(c) ==
    /\ c \in pay.calls /\ c.pc = "details"
    /\ \E fault \in FaultChoices :
        /\ Inject(fault)
        /\ LET orderDetails == IF fault THEN NoDetails ELSE pay.details
           IN  pay' = [pay EXCEPT !.calls = (@ \ {c}) \cup
                   {IF orderDetails = NoDetails \/ orderDetails.status = "COMPLETED"
                    THEN PayFinished(c, FALSE)
                    ELSE [c EXCEPT !.pc = "transaction", !.details = orderDetails]}]
    /\ UNCHANGED <<credits, ret, payFrame>>

\* entityManager.transaction: UPDATE users SET credits = credits + n, then
\* redis.del('credit_order:' + orderId); a del that throws rolls the update
\* back and the catch block answers false
PayTransaction(c) ==
    /\ c \in pay.calls /\ c.pc = "transaction"
    /\ \E fault \in FaultChoices :
        /\ Inject(fault)
        /\ IF fault
           THEN /\ pay' = [pay EXCEPT !.calls = (@ \ {c}) \cup {PayFinished(c, FALSE)}]
                /\ credits' = credits
           ELSE /\ pay' = [pay EXCEPT !.calls = (@ \ {c}) \cup {PayFinished(c, TRUE)},
                                      !.details = NoDetails,
                                      !.added = @ + 1]
                /\ credits' = [credits EXCEPT ![c.details.userId] =
                                  CreditedBalance(@, c.details.credits)]
    /\ UNCHANGED <<ret, payFrame>>

\* finally: redis.get(lockKey) and, when it is this call's value, del; then
\* the call returns
PayFinally(c) ==
    /\ c \in pay.calls /\ c.pc = "finally"
    /\ pay' = [pay EXCEPT !.calls = @ \ {c},
                          !.lock = IF @ = c.n THEN NoLock ELSE @]
    /\ ret' = [NoReturn EXCEPT !.kind = "processPaymentAtomically",
                               !.outcome = IF c.result THEN "true" ELSE "false"]
    /\ UNCHANGED <<credits, faultsLeft, payFrame>>

NextPay ==
    \/ PayBegin
    \/ PayLockExpires
    \/ \E c \in pay.calls : PayDetails(c)
    \/ \E c \in pay.calls : PayTransaction(c)
    \/ \E c \in pay.calls : PayFinally(c)

SpecPay == Init /\ [][NextPay]_vars

\* ------------------------------------------------------------ ChatService
\* chat[o] holds the senders of the messages of stream chat:{o}, oldest
\* first; the position of a message stands for its stream id
SystemSender == 0

\* a membership test that lets everyone in
IsParticipantAnyone(participants, userId) == TRUE

\* redis.call('SISMEMBER', participantsKey, userId) ~= 0
IsParticipant(participants, userId) == userId \in participants

ChatReturn(kind, userId, o, outcome, message, messages) ==
    [NoReturn EXCEPT !.kind = kind, !.userId = userId, !.orderId = o,
                     !.outcome = outcome, !.message = message, !.list = messages]

MessagesAfter(o, sinceId) ==
    {[id |-> i, senderId |-> chat[o][i]] : i \in (sinceId + 1)..Len(chat[o])}

chatFrame ==
    <<credits, dbOrders, cacheVars, reqs, handlers, faultsLeft, ledger, auditVars,
      hookVars, authVars, pay>>

\* sendMessage: one eval of the script, which tests SISMEMBER unless the
\* sender is 'SYSTEM' and then does XADD and EXPIRE
SendMessage(userId, o) ==
    /\ Admit
    /\ Len(chat[o]) < MaxMessages
    /\ IF IsParticipant(redisParticipants[o].members, userId) \/ userId = SystemSender
       THEN /\ chat' = [chat EXCEPT ![o] = Append(@, userId)]
            /\ ret' = ChatReturn("sendMessage", userId, o, "ok", "", {})
       ELSE /\ chat' = chat
            /\ ret' = ChatReturn("sendMessage", userId, o, "Error",
                                 "Failed to send message", {})
    /\ UNCHANGED chatFrame

\* getChatHistory: one eval of the script, SISMEMBER and then XREVRANGE
GetChatHistory(userId, o) ==
    /\ Admit
    /\ ret' = IF IsParticipant(redisParticipants[o].members, userId)
              THEN ChatReturn("getChatHistory", userId, o, "ok", "", MessagesAfter(o, 0))
              ELSE ChatReturn("getChatHistory", userId, o, "Error",
                              "Failed to retrieve chat history", {})
    /\ UNCHANGED <<chat, chatFrame>>

\* getMessagesSince: one eval of the script, SISMEMBER and then XRANGE
GetMessagesSince(userId, o, sinceId) ==
    /\ Admit
    /\ ret' = IF IsParticipant(redisParticipants[o].members, userId)
              THEN ChatReturn("getMessagesSince", userId, o, "ok", "",
                              MessagesAfter(o, sinceId))
              ELSE ChatReturn("getMessagesSince", userId, o, "Error",
                              "Failed to retrieve recent messages", {})
    /\ UNCHANGED <<chat, chatFrame>>

\* the order engine together with the chat of its orders
NextChat ==
    \/ Next
    \/ \E u \in Users \cup {SystemSender}, o \in OrderIds : SendMessage(u, o)
    \/ \E u \in Users, o \in OrderIds : GetChatHistory(u, o)
    \/ \E u \in Users, o \in OrderIds, sinceId \in 1..MaxMessages :
           GetMessagesSince(u, o, sinceId)

\* the chat beside a system that has no order yet, and beside one with a
\* live order that the next pledge completes
InitChat ==
    /\ InitFresh \/ InitLive(2 * Cent)
    /\ purchases = {}
    /\ InitCalls

SpecChat == InitChat /\ [][NextChat]_vars

\* ------------------------------------------------------------- scheduling
\* Every step but the arrival of a new call: the event loop resumes each
\* pending continuation of a request or of an expiry handler, and Redis
\* expires a key whose deadline is set and publishes the message.
Progress ==
    \/ \E r \in BagToSet(reqs) :
          \/ CreateOrderSave(r) \/ CreateOrderStore(r) \/ CreateOrderCatch(r)
          \/ PledgeScript(r) \/ PledgeRefund(r) \/ PledgeNotifyFailure(r)
          \/ PledgeUpdate(r) \/ PledgeNotify(r) \/ PledgeCatch(r)
          \/ StatusFind(r) \/ StatusRestore(r)
    \/ \E o \in OrderIds : ExpireOrderKey(o) \/ ExpireParticipantsKey(o)
    \/ \E h \in BagToSet(handlers) :
          \/ HandlerFind(h) \/ HandlerSave(h) \/ HandlerDelete(h)
          \/ HandlerRefundCreator(h) \/ HandlerRefundPledger(h)

\* the engine with its pending work always carried on
SpecFair == Init /\ [][Next]_vars /\ WF_vars(Progress)

\* ------------------------------------------------------- process restart
\* The process stops and starts again: the requests, expiry handlers and
\* webhooks in flight are gone; the keys of the orders in lost reach their
\* deadline while no subscriber listens, so their expired messages go
\* nowhere; then onModuleInit runs, which subscribes and does nothing else.
Restart(lost) ==
    /\ faultsLeft > 0
    /\ Inject(TRUE)
    /\ reqs' = EmptyBag
    /\ handlers' = EmptyBag
    /\ hooks' = {}
    /\ redisOrder' = [o \in OrderIds |->
           IF o \in lost /\ redisOrder[o].ttl THEN NoSnapshot ELSE redisOrder[o]]
    /\ redisParticipants' = [o \in OrderIds |->
           IF o \in lost /\ redisParticipants[o].ttl THEN NoParticipants
           ELSE redisParticipants[o]]
    /\ UNCHANGED <<credits, dbOrders, geoIndex, ret, reqsLeft, ledger, auditVars,
                   purchases, sideVars>>

\* the engine in a process that may be restarted
NextRestart ==
    \/ Next
    \/ \E lost \in SUBSET OrderIds : Restart(lost)

SpecRestart == Init /\ [][NextRestart]_vars

\* ----------------------------------------------------------- properties
\* C1: every user's credit balance stays >= 0 under any interleaving of
\* createOrder, pledgeToOrder, refunds, expiry refunds and the purchase and
\* refund webhooks; debits on one user are serialized: while nothing has
\* been credited to a user, the debits that returned true are exactly what
\* the balance has lost, and a debit returns false only once the balance is
\* below the cost (balance n, k > n debits: n true, the rest false).
C1_CreditsNeverNegative ==
    \A u \in Users :
        /\ credits[u] >= 0
        /\ ledger[u].pure =>
              /\ ledger[u].ok * CREDIT_COST_PER_ACTION = StartCredits - credits[u]
              /\ ledger[u].refused > 0 => credits[u] < CREDIT_COST_PER_ACTION

\* a user with balance n = StartCredits who asked for more debits than that:
\* n went through, at least one was refused, nothing is left
C1_Witness ==
    \E u \in Users :
        /\ ledger[u].pure
        /\ ledger[u].ok = StartCredits
        /\ ledger[u].refused > 0
        /\ credits[u] = 0

\* C2: a createOrder or pledgeToOrder that returns successfully (order left
\* ACTIVE or COMPLETED) has cost its caller exactly CREDIT_COST_PER_ACTION,
\* net of anything credited back inside the call: never 0, never 2.
C2_SuccessCostsOneCredit ==
    (ret.kind \in {"create", "pledge"} /\ ret.outcome = "ok") =>
        /\ ret.shown.status \in {"ACTIVE", "COMPLETED"}
        /\ ret.net = 0 - CREDIT_COST_PER_ACTION
        /\ ret.refunds = 0

\* the second of two successful pledges of one amount by one user has
\* returned: the pledges add up in the map and the user is two credits down
C2_Witness ==
    /\ ret.kind = "pledge" /\ ret.outcome = "ok"
    /\ ret.shown.pledgeMap[ret.userId] = 2 * ret.amount
    /\ credits[ret.userId] = StartCredits - 2 * CREDIT_COST_PER_ACTION

\* C3: a pledgeToOrder whose scripted pledge is rejected, and a createOrder
\* that fails after the debit, refund the debited credit exactly once, so
\* the call leaves the balance as it found it, whichever later step of the
\* error path succeeds or fails.
C3_FailureRefundsExactlyOnce ==
    (/\ ret.kind \in {"create", "pledge"}
     /\ ret.outcome \notin {"ok", "none"}
     /\ ret.kind = "pledge" => ret.rejected
     /\ ret.message # "Not enough credits") =>
        /\ ret.refunds = 1
        /\ ret.net = 0

\* C4: of two concurrent pledges to one order that would each reach
\* amountNeeded, exactly one completes the order, the completed total counts
\* the winning pledge only, and the other pledge is rejected with the
\* order-fully-pledged reason and gets its credit back.
C4_RaceLoserSeesFullyPledged ==
    \A o \in OrderIds :
        /\ scriptDone[o].completions <= 1
        /\ scriptDone[o].totalPledge = scriptDone[o].base + scriptDone[o].pledge
        /\ (/\ ret.kind = "pledge" /\ ret.orderId = o /\ ret.rejected
            /\ ret.message # "Error: eval"
            /\ scriptDone[o].base + ret.amount >= Min(NeededAmounts)
            /\ [userId |-> ret.userId, amount |-> ret.amount] \in scriptDone[o].rivals) =>
               /\ ret.message = "Order is already fully pledged"
               /\ ret.net = 0

\* C5: for every order, however created and whatever pledges followed,
\* totalPledge >= amountNeeded implies that its status is COMPLETED and that
\* no snapshot of it is in the live cache.
C5_ThresholdMeansCompleted ==
    \A o \in OrderIds :
        (dbOrders[o] # NoOrder /\ dbOrders[o].totalPledge >= dbOrders[o].amountNeeded) =>
            /\ dbOrders[o].status = "COMPLETED"
            /\ CachedOrder(o) = NoOrder

\* C6: in the order table a row that is COMPLETED or EXPIRED never changes
\* status again.
C6_TerminalStatusIsFinal ==
    [][\A o \in OrderIds :
          (dbOrders[o] # NoOrder /\ dbOrders[o].status \in {"COMPLETED", "EXPIRED"}) =>
              dbOrders'[o].status = dbOrders[o].status]_vars

\* C7: over the whole execution an expired order credits each key of its
\* pledgeMap exactly once: never more than one refund per user and order,
\* and, once the expiry handling is over, not zero.
C7_OneExpiryRefundPerParticipant ==
    \A o \in OrderIds : \A u \in Users :
        /\ expiry[o].refunds[u] <= 1
        /\ (/\ expiry[o].finished > 0 /\ handlers = EmptyBag /\ reqs = EmptyBag
            /\ u \in PledgeKeys(dbOrders[o])) => expiry[o].refunds[u] >= 1

\* C8: handleOrderExpiry is idempotent: an invocation that finds the row
\* already EXPIRED returns at once, so none goes on to save, delete or
\* refund after reading an EXPIRED row.
C8_ExpiryHandlerIdempotent ==
    \A h \in BagToSet(handlers) : h.pc # "find" => h.found # "EXPIRED"

\* C9: each elapsed TTL of an order's snapshot key brings exactly one
\* OrderExpired event for that order; the participants key and the number
\* of subscribers add none.
C9_OneEventPerExpiry ==
    \A o \in OrderIds : expiry[o].events = expiry[o].snapshotExpiries

\* C10: once a pledge has completed an order, the snapshot, the participants
\* set and the geo entry that createOrder wrote are gone from the cache, in
\* the state the script leaves and in every state after it.
C10_CompletionClearsCache ==
    \A o \in OrderIds :
        scriptDone[o].completions > 0 =>
            /\ CachedOrder(o) = NoOrder
            /\ redisParticipants[o].members = {}
            /\ ~GeoEntryPresent(o)

\* C11: in every snapshot of every order, in the live cache and in the order
\* table, totalPledge equals the sum of the pledgeMap values (repeated
\* pledges of a user add up in the user's entry and in the total alike).
C11_TotalPledgeIsSumOfMap ==
    \A o \in OrderIds : \A order \in {dbOrders[o], CachedOrder(o)} :
        LET sum[n \in 0..NumUsers] ==
                IF n = 0 THEN 0 ELSE sum[n - 1] + order.pledgeMap[n]
        IN  order.totalPledge = sum[NumUsers]

\* C12: in every snapshot of every order totalUsers equals the number of
\* keys of pledgeMap: a first pledge adds one, a further pledge of a user
\* already in the map adds nothing.
C12_TotalUsersIsMapSize ==
    \A o \in OrderIds : \A order \in {dbOrders[o], CachedOrder(o)} :
        order.totalUsers = Cardinality(PledgeKeys(order))

\* a cached snapshot whose only pledger has pledged twice (the entry is
\* more than one pledge can bring) and is counted once
C12_Witness ==
    \E o \in OrderIds : \E u \in Users :
        /\ CachedOrder(o).pledgeMap[u] = 2 * Cent
        /\ u # CachedOrder(o).creatorId
        /\ CachedOrder(o).totalUsers = 1

\* C13: a getOrderStatus response that shows an order as ACTIVE carries a
\* pledgeMap whose only key is the caller: no other user's entry is in it.
C13_ActiveStatusShowsOwnPledgeOnly ==
    (ret.kind = "status" /\ ret.outcome = "ok" /\ ret.shown.status = "ACTIVE") =>
        \A v \in Users \ {ret.userId} : ret.shown.pledgeMap[v] = 0

\* a participant got the ACTIVE view of an order to which somebody else
\* has pledged as well
C13_Witness ==
    /\ ret.kind = "status" /\ ret.outcome = "ok" /\ ret.shown.status = "ACTIVE"
    /\ ret.orderId \in OrderIds
    /\ \E v \in Users \ {ret.userId} : CachedOrder(ret.orderId).pledgeMap[v] > 0

\* C14: getOrderStatus answers a caller who is not a key of pledgeMap with
\* the very response it gives for an order id that exists nowhere, so the
\* response does not tell whether the order exists.
C14_NotFoundHidesExistence ==
    (ret.kind = "status" /\ ret.outcome # "ok") =>
        /\ ret.outcome = "NotFoundException"
        /\ ret.message = "Order not found"

\* C15: when the process has restarted, every order that is ACTIVE in the
\* durable store has been handled by the startup: its snapshot is in the
\* cache or an expiry handler has been started for it.
C15_StartupHandlesActiveOrders ==
    [][(\E lost \in SUBSET OrderIds : Restart(lost)) =>
          \A o \in OrderIds :
              dbOrders'[o].status = "ACTIVE" =>
                  \/ redisOrder'[o].val # NoOrder
                  \/ \E h \in BagToSet(handlers') : h.orderId = o]_vars

\* C17: a step in which the script writes a pledge that leaves the order
\* ACTIVE does not change the expiry of the snapshot key: a key that had a
\* deadline before the pledge has it after the pledge.
C17_PledgeKeepsSnapshotTtl ==
    [][\A o \in OrderIds :
          (/\ redisOrder[o].val.status = "ACTIVE"
           /\ redisOrder'[o].val.status = "ACTIVE"
           /\ redisOrder'[o].val.totalPledge > redisOrder[o].val.totalPledge) =>
              redisOrder'[o].ttl = redisOrder[o].ttl]_vars

\* C16: an order that is ACTIVE in the durable store is later COMPLETED or
\* EXPIRED there, in every run in which pending work is carried on, TTL
\* expirations are delivered and no store or cache operation fails.
C16_ActiveOrderTerminates ==
    \A o \in OrderIds :
        (dbOrders[o].status = "ACTIVE") ~>
            (dbOrders[o].status \in {"COMPLETED", "EXPIRED"} \/ faultsLeft < MaxFaults)

\* C18: every order in a getActiveOrdersNear response has status ACTIVE.
C18_NearReturnsOnlyActive ==
    ret.kind = "near" => \A order \in ret.list : order.status = "ACTIVE"

\* C19: no response shows an order as ACTIVE when that order has been shown
\* as COMPLETED or EXPIRED by an earlier pledgeToOrder or getOrderStatus
\* response.
C19_ObservedStatusMonotonic ==
    /\ (ret.kind \in {"pledge", "status"} /\ ret.shown.status = "ACTIVE") =>
           ret.shown.id \notin ret.seen
    /\ ret.kind = "near" =>
           \A order \in ret.list : order.status = "ACTIVE" => order.id \notin ret.seen

\* C20: when an order is EXPIRED in the durable store and no expiry handler
\* of it is still ahead of its cleanup, the cache holds no snapshot, no
\* participants set and no geo entry of that order.
C20_ExpiredOrderLeavesNoCache ==
    \A o \in OrderIds :
        (/\ dbOrders[o].status = "EXPIRED"
         /\ \A h \in BagToSet(handlers) :
                h.orderId = o => h.pc \notin {"find", "save", "delete"}) =>
            /\ redisOrder[o] = NoSnapshot
            /\ redisParticipants[o] = NoParticipants
            /\ ~GeoEntryPresent(o)

\* C21: a pledgeToOrder call whose script succeeded and whose update of the
\* order row failed ends without a refund: the caller's balance stays
\* reduced by the cost of the action.
C21_UpdateFailureKeepsDebit ==
    (ret.kind = "pledge" /\ ret.message = "order update failed") =>
        /\ ret.refunds = 0
        /\ ret.net = -CREDIT_COST_PER_ACTION

\* C22: an expiry handler whose refund of one user failed still refunds
\* every other participant: when it has ended, the creator and every key of
\* pledgeMap has been refunded by it or is a user whose refund failed.
C22_FanOutSurvivesFailedRefund ==
    \A o \in OrderIds :
        expiry[o].last.participants \ expiry[o].last.failed \subseteq expiry[o].last.paid

\* C23: a failure while a notification is emitted never surfaces: no
\* createOrder or pledgeToOrder call ends with the error of the notification
\* step, and none is refunded because of it.
C23_NotificationFailureNeverSurfaces ==
    ret.kind \in {"create", "pledge"} =>
        ~(ret.outcome = "Error" /\ ret.message = "user lookup failed")

C26_DummyAccountPattern ==
    ret.kind = "isDummyTestAccount" =>
        LET isDigit(c) == c \in {"0", "1", "8", "9"}
            digits == SelectSeq(ret.message, isDigit)
            dummy == digits \in {Nines(10), <<"9", "1">> \o Nines(10),
                                 <<"0", "9", "1">> \o Nines(10)}
        IN  ret.outcome = IF dummy THEN "true" ELSE "false"

\* C27: a script run on a missing snapshot, on a snapshot that is not ACTIVE
\* or on one whose totalPledge has reached amountNeeded fails with the reason
\* of that case and leaves snapshot, participants set and geo index as they
\* were.
C27_RejectedPledgeChangesNothing ==
    [][\A r \in BagToSet(reqs) :
          (PledgeScript(r) /\ faultsLeft' = faultsLeft) =>
              LET before == CachedOrder(r.orderId)
                  reason == IF before = NoOrder THEN "Order not found"
                            ELSE IF before.status # "ACTIVE" THEN "Order is not active"
                            ELSE IF before.totalPledge >= before.amountNeeded
                            THEN "Order is already fully pledged"
                            ELSE "none"
              IN  reason # "none" =>
                      /\ UNCHANGED <<redisOrder, redisParticipants, geoIndex>>
                      /\ \E q \in BagToSet(reqs') :
                             /\ q.pc = "refund" /\ q.rejected
                             /\ q.userId = r.userId /\ q.message = reason]_vars

\* the script has turned a pledge down because the order was fully pledged
C27_Witness ==
    \E q \in BagToSet(reqs) :
        /\ q.pc = "refund" /\ q.message = "Order is already fully pledged"
        /\ CachedOrder(q.orderId).totalPledge >= CachedOrder(q.orderId).amountNeeded

\* C28: createOrder is all-or-nothing: when it has returned an error after
\* the debit and refunded the credit, neither an order row nor a snapshot,
\* participants set or geo entry of that order remains.
C28_FailedCreateLeavesNothing ==
    (ret.kind = "create" /\ ret.outcome = "Error" /\ ret.refunds > 0
        /\ ret.orderId \in OrderIds) =>
        /\ dbOrders[ret.orderId] = NoOrder
        /\ redisOrder[ret.orderId] = NoSnapshot
        /\ redisParticipants[ret.orderId] = NoParticipants
        /\ ~GeoEntryPresent(ret.orderId)

\* C29: once every pledgeToOrder call on an order has returned, and none of
\* them met a failure, the row of the order holds the pledge map, total
\* pledge (as a decimal(10,2) column), total users and status of the last
\* snapshot the scripted pledge wrote, until an expiry is handled for it.
C29_RowConvergesToLastSnapshot ==
    \A o \in OrderIds :
        (/\ scriptDone[o].last # NoOrder
         /\ faultsLeft = MaxFaults
         /\ expiry[o].events = 0
         /\ \A r \in BagToSet(reqs) : ~(r.kind = "pledge" /\ r.orderId = o)) =>
            /\ dbOrders[o].pledgeMap = scriptDone[o].last.pledgeMap
            /\ dbOrders[o].totalPledge = ToDecimal2(scriptDone[o].last.totalPledge)
            /\ dbOrders[o].totalUsers = scriptDone[o].last.totalUsers
            /\ dbOrders[o].status = scriptDone[o].last.status

\* C30: an order is completed at most once: from the state in which the
\* script has moved an order to COMPLETED, no step completes it again, no
\* script step lets a further pledge to it succeed, and no snapshot of it
\* comes back into the cache once it is gone.
C30_CompletedAtMostOnce ==
    [][\A o \in OrderIds :
          scriptDone[o].completions > 0 =>
              /\ scriptDone'[o].completions = scriptDone[o].completions
              /\ \A q \in BagToSet(reqs') :
                     (q.kind = "pledge" /\ q.orderId = o /\ q.pc = "update") =>
                         CopiesIn(q, reqs') <= CopiesIn(q, reqs)
              /\ redisOrder[o] = NoSnapshot => redisOrder'[o] = NoSnapshot]_vars

\* C31: getOrderStatus is a read: none of its steps, whether the call then
\* succeeds or fails, changes a credit balance, an order row, a snapshot or
\* its TTL, the geo index or a participants set.
C31_StatusIsRead ==
    [][(\/ \E u \in Users, o \in Targets : StatusBegin(u, o)
        \/ \E r \in BagToSet(reqs) : StatusFind(r) \/ StatusRestore(r)) =>
           UNCHANGED <<credits, dbOrders, redisOrder, redisParticipants, geoIndex>>]_vars

\* C32: while the snapshot of an order is ACTIVE in the cache, its
\* participants set holds exactly the users that are keys of the snapshot's
\* pledgeMap, and the set carries a TTL exactly when the snapshot does; this
\* is looked at for an order that a createOrder call has just returned or
\* that the scripted pledge has written.
C32_ParticipantsArePledgers ==
    \A o \in OrderIds :
        (/\ CachedOrder(o) # NoOrder /\ CachedOrder(o).status = "ACTIVE"
         /\ \/ ret.kind = "create" /\ ret.outcome = "ok" /\ ret.orderId = o
            \/ scriptDone[o].last # NoOrder) =>
            /\ redisParticipants[o].members = PledgeKeys(CachedOrder(o))
            /\ redisParticipants[o].ttl = redisOrder[o].ttl

\* C33: an answer of getOrderStatus or pledgeToOrder carries phone numbers
\* only when the order it shows is COMPLETED and the caller is a key of its
\* pledgeMap; answers for ACTIVE and EXPIRED orders and to non-participants
\* carry none.
C33_PhonesOnlyForCompletedParticipants ==
    ret.phones # {} =>
        /\ ret.kind \in {"status", "pledge"}
        /\ ret.outcome = "ok"
        /\ ret.shown.status = "COMPLETED"
        /\ ret.shown.pledgeMap[ret.userId] > 0

C33_Witness ==
    /\ ret.kind = "status" /\ ret.phones # {}
    /\ ret.shown.status = "COMPLETED"

\* C34: an access token handed out before a signOut or a new login of the
\* user returned is rejected by JwtStrategy.validate from then on, also when
\* a refreshTokens call ran concurrently with that signOut or login; runs
\* in which a Redis command failed are left aside.
C34_SupersededTokensRejected ==
    [][\A token \in tokenAudit.revoked :
          (ValidateToken(token) /\ faultsLeft = MaxFaults) =>
              ret'.outcome = "UnauthorizedException"]_vars

C36_OnlyStoredRefreshTokenRefreshes ==
    [][\A c \in authCalls :
          /\ (RefreshFind(c) /\ c.old) =>
                 /\ ret'.kind = "refresh" /\ ret'.outcome = "ForbiddenException"
                 /\ authCalls' = authCalls \ {c}
          /\ (c.kind = "refresh" /\ (RefreshFind(c) \/ AuthSadd(c) \/ AuthSetex(c))) =>
                 userRefreshToken' = userRefreshToken]_vars

\* C37: the credits of one payment order id are added at most once, however
\* the success webhooks for it interleave and also when the lock expires
\* while a call is still running.
C37_PaymentCreditedAtMostOnce == pay.added <= 1

C39_WebhookLosesNoUpdate ==
    [][\A h \in hooks :
          /\ (AwardCommit(h) /\ purchases' # purchases) =>
                 credits'[h.userId] =
                     CreditedBalance(credits[h.userId], h.row.creditsAwarded)
          /\ (RefundCommit(h) /\ purchases' # purchases) =>
                 credits'[h.userId] =
                     RefundedBalance(credits[h.userId], 0 - h.row.creditsAwarded)]_vars

====
